---- MODULE Spec2Model ----
(***************************************************************************)
(* A model of src/app.py: a Streamlit script over one SQLite database with *)
(* three tables (purchases, sales, orders).  The database is modelled as   *)
(* SQLite keeps it: per table a b-tree keyed by rowid (the INTEGER PRIMARY *)
(* KEY AUTOINCREMENT column id) and the sqlite_sequence counter that       *)
(* AUTOINCREMENT maintains.  Rows are positional tuples, as the code binds *)
(* and fetches them.                                                       *)
(*                                                                         *)
(* Two specifications:                                                     *)
(*   Spec    the utility functions called by any caller with any typed     *)
(*           arguments (add_record, update_record_status, fetch_data) and  *)
(*           the module-level table creation;                              *)
(*   SpecUI  the script as Streamlit runs it: one action per script run    *)
(*           of a page, with the values its widgets can deliver.           *)
(***************************************************************************)
EXTENDS Integers, Sequences, FiniteSets, TLC

VARIABLES
    db,        \* the database file: [schema, rows, seq]
    inserted,  \* history: per table, the ids in the order add_record inserted them
    last       \* the last call and what it reported: [op, table, err, id, rowcount, ret]

vars == <<db, inserted, last>>

----------------------------------------------------------------------------
(* Bounds of the model *)

\* under Spec, add_record stops being offered once the store holds this many rows
MaxRows == 2

\* under SpecUI, the forms stop being submitted once the store holds this many rows
MaxFormRows == 3

----------------------------------------------------------------------------
(* Values *)

Tables == {"purchases", "sales", "orders"}

\* Text values are sequences of characters: the empty string, a
\* whitespace-only string and a plain one.
Text == { <<>>, <<" ">>, <<"w">> }

\* REAL prices, drawn from the integers: one below the CHECK's limit, and the limit
Prices == {-1, 0}

\* INTEGER quantities: negative, zero, positive
Quantities == {-1, 0, 1}

\* what a caller may pass as status: the two of the enumeration and another
Statuses == {"Pending", "Completed", "Cancelled"}

\* a date, in the ISO text the DATE column holds
Dates == {"2024-01-15"}

\* record ids a caller may pass: those the bound lets exist, and one that never does
RecordIds == 1 .. (MaxRows + 1)

----------------------------------------------------------------------------
(* The schema: the three CREATE TABLE statements *)

Columns(t) ==
    CASE t = "purchases" ->
           <<"id", "product_name", "price", "quantity", "vendor", "purchase_date">>
      [] t = "sales" ->
           <<"id", "product_name", "price", "quantity", "customer", "sale_date">>
      [] t = "orders" ->
           <<"id", "product_name", "quantity", "status", "order_date">>

\* the position of column c in table t, 0 when t has no such column
RECURSIVE IndexFrom(_, _, _)
IndexFrom(cols, c, i) ==
    IF i > Len(cols) THEN 0
    ELSE IF cols[i] = c THEN i
    ELSE IndexFrom(cols, c, i + 1)

ColumnIndex(t, c) == IndexFrom(Columns(t), c, 1)

HasColumn(t, c) == ColumnIndex(t, c) # 0

\* CHECK(price >= 0)
PriceCheck(price) == price >= 0

\* variant: the quantity check with >= for >
QuantityCheckAtLeastZero(quantity) == quantity >= 0

\* CHECK(quantity > 0)
QuantityCheck(quantity) == quantity > 0

\* variant: a status column without its CHECK clause
StatusCheckAny(status) == TRUE

\* CHECK(status IN ('Pending', 'Completed'))
StatusCheck(status) == status \in {"Pending", "Completed"}

\* The CHECK clauses of table t on a full row (id first).
CheckConstraints(t, row) ==
    /\ HasColumn(t, "price") => PriceCheck(row[ColumnIndex(t, "price")])
    /\ HasColumn(t, "quantity") => QuantityCheck(row[ColumnIndex(t, "quantity")])
    /\ HasColumn(t, "status") => StatusCheck(row[ColumnIndex(t, "status")])

\* the values a caller can bind to the placeholders of an insert into t
\* (every column but id, in column order)
Params(t) ==
    CASE t = "purchases" ->
           {<<n, p, q, v, d>> : n \in Text, p \in Prices, q \in Quantities,
                                v \in Text, d \in Dates}
      [] t = "sales" ->
           {<<n, p, q, c, d>> : n \in Text, p \in Prices, q \in Quantities,
                                c \in Text, d \in Dates}
      [] t = "orders" ->
           {<<n, q, s, d>> : n \in Text, q \in Quantities, s \in Statuses,
                             d \in Dates}

----------------------------------------------------------------------------
(* The database *)

SetMax(S) == CHOOSE m \in S : \A x \in S : x <= m
SetMin(S) == CHOOSE m \in S : \A x \in S : m <= x

\* the database file when the connection first opens it: no table yet
EmptyDb ==
    [schema |-> {},
     rows   |-> [t \in Tables |-> <<>>],
     seq    |-> [t \in Tables |-> 0]]

RowCount(d, t) == Cardinality(DOMAIN d.rows[t])

TotalRows(d) ==
    RowCount(d, "purchases") + RowCount(d, "sales") + RowCount(d, "orders")

\* variant: CREATE TABLE over a table that exists, replacing it
CreateTableAnew(d, t) ==
    [d EXCEPT !.schema = @ \cup {t}, !.rows[t] = <<>>, !.seq[t] = 0]

\* CREATE TABLE IF NOT EXISTS t: a table that exists is left as it is
CreateTableIfNotExists(d, t) ==
    IF t \in d.schema
    THEN d
    ELSE [d EXCEPT !.schema = @ \cup {t},
                   !.rows[t] = <<>>,
                   !.seq[t]  = 0]

\* the three CREATE TABLE statements and the commit, lines 22-51
CreateTables(d) ==
    CreateTableIfNotExists(
        CreateTableIfNotExists(
            CreateTableIfNotExists(d, "purchases"), "sales"), "orders")

\* variant: the sequence value itself, not the one after it
NextRowidNoIncrement(d, t) == d.seq[t]

\* AUTOINCREMENT: one more than the largest rowid the table ever held
NextRowid(d, t) ==
    LET ids  == DOMAIN d.rows[t]
        high == IF ids = {} THEN 0 ELSE SetMax(ids)
    IN  (IF d.seq[t] > high THEN d.seq[t] ELSE high) + 1

\* INSERT INTO t VALUES (NULL, ?, ...): the row is stored only when every
\* CHECK clause holds; a failed statement changes nothing.
Insert(d, t, data) ==
    LET id  == NextRowid(d, t)
        row == <<id>> \o data
    IN  IF CheckConstraints(t, row)
        THEN [err |-> "ok", id |-> id,
              db  |-> [d EXCEPT !.rows[t] = (id :> data) @@ @,
                                !.seq[t]  = id]]
        ELSE [err |-> "IntegrityError", id |-> 0, db |-> d]

\* variant: the column position taken with the id counted in
SetColumnShifted(t, r, c, v) == [r EXCEPT ![ColumnIndex(t, c)] = v]

\* row r of table t (without its id) with column c set to v
SetColumn(t, r, c, v) == [r EXCEPT ![ColumnIndex(t, c) - 1] = v]

\* variant: a WHERE clause no row satisfies
MatchingNone(d, t, record_id) == {}

\* variant: the statement without its WHERE clause
MatchingAll(d, t, record_id) == DOMAIN d.rows[t]

\* WHERE id = ?: the rowids of t the clause selects
Matching(d, t, record_id) == {i \in DOMAIN d.rows[t] : i = record_id}

\* UPDATE t SET status = ? WHERE id = ?
Update(d, t, record_id, new_status) ==
    IF ~HasColumn(t, "status")
    THEN [err |-> "OperationalError", rowcount |-> 0, db |-> d]
    ELSE LET hit == Matching(d, t, record_id)
             new == [i \in DOMAIN d.rows[t] |->
                        IF i \in hit
                        THEN SetColumn(t, d.rows[t][i], "status", new_status)
                        ELSE d.rows[t][i]]
         IN  IF \E i \in hit : ~CheckConstraints(t, <<i>> \o new[i])
             THEN [err |-> "IntegrityError", rowcount |-> 0, db |-> d]
             ELSE [err |-> "ok", rowcount |-> Cardinality(hit),
                   db  |-> [d EXCEPT !.rows[t] = new]]

\* variant: a scan from the largest rowid down
FirstRowidReversed(ids) == SetMax(ids)

\* where a scan of the rowids ids starts: at the smallest
FirstRowid(ids) == SetMin(ids)

\* SELECT * FROM t: a scan of the table's b-tree, in rowid order
RECURSIVE Scan(_, _)
Scan(tbl, ids) ==
    IF ids = {} THEN <<>>
    ELSE LET m == FirstRowid(ids)
         IN  << <<m>> \o tbl[m] >> \o Scan(tbl, ids \ {m})

Select(d, t) == Scan(d.rows[t], DOMAIN d.rows[t])

----------------------------------------------------------------------------
(* validate_input *)

Whitespace == {" ", "\t", "\n", "\r"}

RECURSIVE LStrip(_)
LStrip(s) ==
    IF s = <<>> THEN s
    ELSE IF Head(s) \in Whitespace THEN LStrip(Tail(s))
    ELSE s

RECURSIVE RStrip(_)
RStrip(s) ==
    IF s = <<>> THEN s
    ELSE IF s[Len(s)] \in Whitespace THEN RStrip(SubSeq(s, 1, Len(s) - 1))
    ELSE s

\* str.strip()
Strip(s) == RStrip(LStrip(s))

\* variant: validate_input without the strip() test
validate_input_no_strip(values) ==
    IF \E i \in DOMAIN values : Len(values[i]) = 0 THEN "ValueError" ELSE "ok"

\* validate_input(**kwargs) over the text values passed: raises ValueError at
\* the first one that is empty or holds only whitespace
validate_input(values) ==
    IF \E i \in DOMAIN values :
           Len(values[i]) = 0 \/ Len(Strip(values[i])) = 0
    THEN "ValueError"
    ELSE "ok"

----------------------------------------------------------------------------
(* The utility functions *)

NoFrame == <<>>

\* op on table t ended with err; id is cursor.lastrowid of an insert, rowcount
\* is cursor.rowcount of an update, ret is the value returned
Report(op, t, err, id, rowcount, ret) ==
    [op |-> op, table |-> t, err |-> err, id |-> id, rowcount |-> rowcount,
     ret |-> ret]

\* the history of inserts after a call of add_record(t, ...) with result r
\* (r.id is 0 when nothing was inserted)
Logged(t, r) ==
    IF r.id # 0 THEN [inserted EXCEPT ![t] = Append(@, r.id)] ELSE inserted

\* the DataFrame fetch_data builds: the column names and the fetched rows
Frame(d, t) == [columns |-> Columns(t), rows |-> Select(d, t)]

Init ==
    /\ db = EmptyDb
    /\ inserted = [t \in Tables |-> <<>>]
    /\ last = Report("connect", "", "ok", 0, 0, NoFrame)

\* lines 17-51: every run of the script creates the tables that are absent
Initialize ==
    /\ db' = CreateTables(db)
    /\ last' = Report("initialize", "", "ok", 0, 0, NoFrame)
    /\ UNCHANGED inserted

\* add_record(table, data): the insert, then the commit.  A failed insert
\* raises sqlite3.IntegrityError out of add_record.
add_record(t, data) ==
    /\ t \in db.schema
    /\ TotalRows(db) < MaxRows
    /\ LET r == Insert(db, t, data)
       IN  /\ db' = r.db
           /\ inserted' = Logged(t, r)
           /\ last' = Report("add_record", t, r.err, r.id, 0, NoFrame)

\* update_record_status(table, record_id, new_status)
update_record_status(t, record_id, new_status) ==
    /\ t \in db.schema
    /\ LET r == Update(db, t, record_id, new_status)
       IN  /\ db' = r.db
           /\ last' = Report("update_record_status", t, r.err, 0, r.rowcount, NoFrame)
    /\ UNCHANGED inserted

\* fetch_data(table): the rows of the table as a frame
fetch_data(t) ==
    /\ t \in db.schema
    /\ last' = Report("fetch_data", t, "ok", 0, 0, Frame(db, t))
    /\ UNCHANGED <<db, inserted>>

AddRecord == \E t \in Tables : \E data \in Params(t) : add_record(t, data)

\* On a table without a status column the statement fails whatever is bound
\* to it, so one pair of arguments stands for all.
UpdateRecordStatus ==
    \E t \in Tables :
        \E record_id \in (IF HasColumn(t, "status") THEN RecordIds ELSE {1}) :
            \E new_status \in (IF HasColumn(t, "status") THEN Statuses
                                ELSE {"Completed"}) :
                update_record_status(t, record_id, new_status)

FetchData == \E t \in Tables : fetch_data(t)

Next ==
    \/ Initialize
    \/ AddRecord
    \/ UpdateRecordStatus
    \/ FetchData

Spec == Init /\ [][Next]_vars

----------------------------------------------------------------------------
(* The pages: one action per run of the script *)

\* what the widgets deliver: st.number_input(min_value=0.0) for a price,
\* st.number_input(min_value=1, step=1) for a quantity, the two options of
\* the status selectbox
WidgetPrices == {p \in Prices : p >= 0}
WidgetQuantities == {q \in Quantities : q >= 1}
WidgetStatuses == {"Pending", "Completed"}

\* The body of a form: nothing unless its button was pressed; then
\* validate_input on the text fields, and add_record only when it passed.
\* ValueError is caught and shown; IntegrityError is not caught.
SubmitForm(d, t, submit, texts, data) ==
    IF ~submit THEN [err |-> "ok", id |-> 0, db |-> d]
    ELSE IF validate_input(texts) # "ok"
         THEN [err |-> "ValueError", id |-> 0, db |-> d]
         ELSE Insert(d, t, data)

\* what the run shows below the form: the frame of the table, unless the
\* uncaught exception ended the run before fetch_data
Shown(r, t) == IF r.err = "IntegrityError" THEN NoFrame ELSE Frame(r.db, t)

\* variant: the selectbox offered the ids of all orders
PendingIdsUnfiltered(frame) ==
    {frame.rows[k][IndexFrom(frame.columns, "id", 1)] : k \in DOMAIN frame.rows}

\* order_data[order_data["status"] == "Pending"]["id"]
PendingIds(frame) ==
    LET s == IndexFrom(frame.columns, "status", 1)
        i == IndexFrom(frame.columns, "id", 1)
    IN  {frame.rows[k][i] : k \in {j \in DOMAIN frame.rows :
                                      frame.rows[j][s] = "Pending"}}

\* a run of the page Manage Purchases, lines 97-121
ManagePurchases(submit, product_name, price, quantity, vendor, purchase_date) ==
    /\ submit => TotalRows(db) < MaxFormRows
    /\ LET r == SubmitForm(CreateTables(db), "purchases", submit,
                           <<product_name, vendor>>,
                           <<product_name, price, quantity, vendor, purchase_date>>)
       IN  /\ db' = r.db
           /\ inserted' = Logged("purchases", r)
           /\ last' = Report(IF submit THEN "Add Purchase" ELSE "Manage Purchases",
                             "purchases", r.err, r.id, 0, Shown(r, "purchases"))

\* a run of the page Manage Sales, lines 124-148
ManageSales(submit, product_name, price, quantity, customer, sale_date) ==
    /\ submit => TotalRows(db) < MaxFormRows
    /\ LET r == SubmitForm(CreateTables(db), "sales", submit,
                           <<product_name, customer>>,
                           <<product_name, price, quantity, customer, sale_date>>)
       IN  /\ db' = r.db
           /\ inserted' = Logged("sales", r)
           /\ last' = Report(IF submit THEN "Add Sale" ELSE "Manage Sales",
                             "sales", r.err, r.id, 0, Shown(r, "sales"))

\* a run of the page Manage Orders in which "Mark as Completed" was not
\* pressed, lines 151-186
ManageOrders(submit, product_name, quantity, status, order_date) ==
    /\ submit => TotalRows(db) < MaxFormRows
    /\ LET r == SubmitForm(CreateTables(db), "orders", submit,
                           <<product_name>>,
                           <<product_name, quantity, status, order_date>>)
       IN  /\ db' = r.db
           /\ inserted' = Logged("orders", r)
           /\ last' = Report(IF submit THEN "Add Order" ELSE "Manage Orders",
                             "orders", r.err, r.id, 0, Shown(r, "orders"))

\* a run of the page Manage Orders in which "Mark as Completed" was pressed
\* with order_id_to_update selected: the selectbox and the button exist
\* only while some order is Pending, and the selectbox offers the ids of
\* the Pending orders.  st.rerun() then runs the script again.
MarkAsCompleted(order_id_to_update) ==
    LET d0         == CreateTables(db)
        order_data == Frame(d0, "orders")
    IN  /\ order_data.rows # <<>>
        /\ order_id_to_update \in PendingIds(order_data)
        /\ LET u == Update(d0, "orders", order_id_to_update, "Completed")
               d1 == CreateTables(u.db)
           IN  /\ db' = d1
               /\ last' = Report("Mark as Completed", "orders", u.err, 0,
                                 u.rowcount, Frame(d1, "orders"))
        /\ UNCHANGED inserted

PurchasesPage ==
    \E submit \in BOOLEAN, product_name \in Text, price \in WidgetPrices,
       quantity \in WidgetQuantities, vendor \in Text, purchase_date \in Dates :
        ManagePurchases(submit, product_name, price, quantity, vendor, purchase_date)

SalesPage ==
    \E submit \in BOOLEAN, product_name \in Text, price \in WidgetPrices,
       quantity \in WidgetQuantities, customer \in Text, sale_date \in Dates :
        ManageSales(submit, product_name, price, quantity, customer, sale_date)

OrdersPage ==
    \E submit \in BOOLEAN, product_name \in Text, quantity \in WidgetQuantities,
       status \in WidgetStatuses, order_date \in Dates :
        ManageOrders(submit, product_name, quantity, status, order_date)

MarkCompletedButton ==
    \E order_id_to_update \in 1 .. MaxFormRows : MarkAsCompleted(order_id_to_update)

NextUI ==
    \/ PurchasesPage
    \/ SalesPage
    \/ OrdersPage
    \/ MarkCompletedButton

SpecUI == Init /\ [][NextUI]_vars

\* add_record as the forms call it and as any other caller may: the table
\* creation, add_record, and the runs of the three pages
NextCallers ==
    \/ Initialize
    \/ AddRecord
    \/ (TotalRows(db) < MaxRows /\ PurchasesPage)
    \/ (TotalRows(db) < MaxRows /\ SalesPage)
    \/ (TotalRows(db) < MaxRows /\ OrdersPage)

SpecCallers == Init /\ [][NextCallers]_vars

----------------------------------------------------------------------------
(* Properties *)

Orders == "orders"

\* the status of order i in database d
StatusOf(d, i) == d.rows[Orders][i][ColumnIndex(Orders, "status") - 1]

\* a text that is empty or holds only whitespace
Blank(s) == \A i \in DOMAIN s : s[i] \in Whitespace

\* the required text fields among the values data bound to an insert into t
RequiredTexts(t, data) ==
    {data[ColumnIndex(t, c) - 1] :
        c \in {c \in {"product_name", "vendor", "customer"} : HasColumn(t, c)}}

\* data has price < 0 or quantity <= 0
BadNumbers(t, data) ==
    \/ HasColumn(t, "price") /\ data[ColumnIndex(t, "price") - 1] < 0
    \/ data[ColumnIndex(t, "quantity") - 1] <= 0

\* data satisfies every constraint of the data model of t
ValidFields(t, data) ==
    /\ ~BadNumbers(t, data)
    /\ HasColumn(t, "status") =>
           data[ColumnIndex(t, "status") - 1] \in {"Pending", "Completed"}
    /\ \A s \in RequiredTexts(t, data) : ~Blank(s)

\* per table, the tuples with valid fields and those with price < 0 or
\* quantity <= 0
ValidParams == [t \in Tables |-> {data \in Params(t) : ValidFields(t, data)}]
BadParams == [t \in Tables |-> {data \in Params(t) : BadNumbers(t, data)}]

\* sequence s without its k-th element
Without(s, k) == SubSeq(s, 1, k - 1) \o SubSeq(s, k + 1, Len(s))

\* the ids of the rows of a fetched sequence, in its order
IdsOf(fetched) == [k \in DOMAIN fetched |-> fetched[k][1]]

\* row r of table t (without id) with its status column, if any, blanked
NonStatus(t, r) ==
    IF HasColumn(t, "status") THEN [r EXCEPT ![ColumnIndex(t, "status") - 1] = ""]
    ELSE r

\* C1: add_record with valid fields, then fetch_data: the previous rows and
\* exactly one new row, holding the submitted values under an id greater
\* than every id the table assigned before; id 1 in a fresh table.
C1_AddThenFetch ==
    [][\A t \in Tables : \A data \in ValidParams[t] :
          (/\ last'.op = "add_record" /\ last'.table = t
           /\ add_record(t, data)) =>
              LET before == Select(db, t)
                  after  == Select(db', t)
              IN  /\ last'.err = "ok"
                  /\ Len(after) = Len(before) + 1
                  /\ \E k \in DOMAIN after :
                        /\ Without(after, k) = before
                        /\ Tail(after[k]) = data
                        /\ \A j \in DOMAIN before : after[k][1] > before[j][1]
                        /\ \A j \in DOMAIN inserted[t] : after[k][1] > inserted[t][j]
                        /\ inserted[t] = <<>> => after[k][1] = 1
      ]_vars

\* add_record stored a valid row in a table that already held one
C1_Witness ==
    /\ last.op = "add_record"
    /\ last.err = "ok"
    /\ Len(inserted[last.table]) >= 2
    /\ ValidFields(last.table, db.rows[last.table][last.id])

\* C2: add_record with price < 0 or quantity <= 0 raises IntegrityError and
\* leaves every table as it was: a step of add_record either does so, or is
\* no call with such values.
C2_BadNumbersRejected ==
    [][\A t \in Tables :
          (last'.op = "add_record" /\ last'.table = t) =>
              \/ /\ last'.err = "IntegrityError"
                 /\ db' = db
                 /\ RowCount(db', t) = RowCount(db, t)
              \/ \A data \in BadParams[t] : ~add_record(t, data)
      ]_vars

\* add_record was refused on a table with price and quantity only, with rows stored
C2_Witness ==
    /\ last.op = "add_record"
    /\ last.err = "IntegrityError"
    /\ last.table \in {"purchases", "sales"}
    /\ RowCount(db, last.table) > 0

\* C3 as claimed: add_record with a blank required text field (its other
\* fields valid) raises ValueError and stores nothing.
C3_AddRecordValidates ==
    [][\A t \in Tables : \A data \in Params(t) :
          (/\ last'.op = "add_record" /\ last'.table = t
           /\ ~BadNumbers(t, data)
           /\ CheckConstraints(t, <<0>> \o data)
           /\ \E s \in RequiredTexts(t, data) : Blank(s)
           /\ add_record(t, data)) =>
              /\ last'.err = "ValueError"
              /\ RowCount(db', t) = RowCount(db, t)
      ]_vars

\* the form's submission was refused and nothing was stored
Refused ==
    /\ last'.err = "ValueError"
    /\ db'.rows = db.rows
    /\ inserted' = inserted

\* C3 as amended: a form submitted with a blank required text field shows
\* ValueError and stores nothing: validate_input raises before the form
\* calls add_record.  A step that submits a form either is refused so, or
\* is no submission with a blank field.
C3_FormValidates ==
    [][/\ last'.op = "Add Purchase" =>
             \/ Refused
             \/ \A n \in Text, v \in Text :
                    (Blank(n) \/ Blank(v)) =>
                        \A p \in WidgetPrices, q \in WidgetQuantities, d \in Dates :
                            ~ManagePurchases(TRUE, n, p, q, v, d)
       /\ last'.op = "Add Sale" =>
             \/ Refused
             \/ \A n \in Text, c \in Text :
                    (Blank(n) \/ Blank(c)) =>
                        \A p \in WidgetPrices, q \in WidgetQuantities, d \in Dates :
                            ~ManageSales(TRUE, n, p, q, c, d)
       /\ last'.op = "Add Order" =>
             \/ Refused
             \/ \A n \in Text :
                    Blank(n) =>
                        \A q \in WidgetQuantities, st \in WidgetStatuses, d \in Dates :
                            ~ManageOrders(TRUE, n, q, st, d)
      ]_vars

\* a form was submitted with a blank field while rows were stored
C3_Witness ==
    /\ last.op \in {"Add Purchase", "Add Sale", "Add Order"}
    /\ last.err = "ValueError"
    /\ TotalRows(db) > 0

\* C4: update_record_status on an existing order with Pending or Completed
\* sets that order's status, and the same call again changes nothing more.
C4_UpdateSetsStatus ==
    [][\A id \in RecordIds : \A s \in {"Pending", "Completed"} :
          (/\ last'.op = "update_record_status"
           /\ id \in DOMAIN db.rows[Orders]
           /\ update_record_status(Orders, id, s)) =>
              /\ last'.err = "ok"
              /\ StatusOf(db', id) = s
              /\ Update(db', Orders, id, s).err = "ok"
              /\ Update(db', Orders, id, s).db = db'
      ]_vars

\* an update changed one order while another order kept the other status
C4_Witness ==
    /\ last.op = "update_record_status"
    /\ last.err = "ok"
    /\ last.rowcount = 1
    /\ \E i, j \in DOMAIN db.rows[Orders] : StatusOf(db, i) # StatusOf(db, j)

\* C5: update_record_status with an id no order has changes nothing and
\* raises nothing, whatever the status passed.
C5_UpdateMissingIsNoOp ==
    [][\A id \in RecordIds : \A s \in Statuses :
          (/\ last'.op = "update_record_status"
           /\ id \notin DOMAIN db.rows[Orders]
           /\ update_record_status(Orders, id, s)) =>
              /\ db' = db
              /\ inserted' = inserted
              /\ last'.err = "ok"
              /\ last'.rowcount = 0
      ]_vars

\* an update matched no order while orders were stored
C5_Witness ==
    /\ last.op = "update_record_status"
    /\ last.table = Orders
    /\ last.err = "ok"
    /\ last.rowcount = 0
    /\ RowCount(db, Orders) > 0

\* what fetch_data(t) returns holds every row of t with every column, in
\* ascending id order, which is the order of insertion
FetchedInOrder(t) ==
    LET f == Frame(db, t)
    IN  /\ f.columns = Columns(t)
        /\ IdsOf(f.rows) = inserted[t]
        /\ \A j, k \in DOMAIN f.rows : j < k => f.rows[j][1] < f.rows[k][1]
        /\ {f.rows[k] : k \in DOMAIN f.rows} =
               {<<i>> \o db.rows[t][i] : i \in DOMAIN db.rows[t]}
        /\ \A k \in DOMAIN f.rows : Len(f.rows[k]) = Len(Columns(t))

\* C6: fetch_data returns every row with all its columns, by ascending id,
\* which is insertion order after any adds and updates; it changes nothing.
C6_FetchAll ==
    /\ [](\A t \in Tables : FetchedInOrder(t))
    /\ [](last.op = "fetch_data" => last.ret = Frame(db, last.table))
    /\ [][\A t \in Tables :
             (last'.op = "fetch_data" /\ fetch_data(t)) =>
                 (db' = db /\ inserted' = inserted)]_vars

\* fetch_data returned two orders, the first Completed and the second Pending
C6_Witness ==
    /\ last.op = "fetch_data"
    /\ last.table = Orders
    /\ Len(last.ret.rows) >= 2
    /\ StatusOf(db, 1) = "Completed"
    /\ StatusOf(db, 2) = "Pending"

\* C7: in every step every stored row stays, under its id, with every field
\* but the status as it was.
C7_RowsStay ==
    [][\A t \in Tables : \A i \in DOMAIN db.rows[t] :
          /\ i \in DOMAIN db'.rows[t]
          /\ NonStatus(t, db'.rows[t][i]) = NonStatus(t, db.rows[t][i])
          /\ RowCount(db', t) >= RowCount(db, t)
      ]_vars

\* an update changed an order's status while another row was stored
C7_Witness ==
    /\ last.op = "update_record_status"
    /\ last.rowcount = 1
    /\ TotalRows(db) >= 2

\* C8: creating the tables again leaves the tables that exist and their
\* rows as they are, creates the absent ones empty, and a second run
\* changes nothing.
C8_InitializeIdempotent ==
    [][(last'.op = "initialize" /\ Initialize) =>
          /\ db'.schema = Tables
          /\ \A t \in db.schema :
                db'.rows[t] = db.rows[t] /\ db'.seq[t] = db.seq[t]
          /\ \A t \in Tables \ db.schema : db'.rows[t] = <<>>
          /\ inserted' = inserted
          /\ CreateTables(db') = db'
      ]_vars

\* the tables were created again while they held rows
C8_Witness ==
    /\ last.op = "initialize"
    /\ db.schema = Tables
    /\ TotalRows(db) > 0

\* C9: through the pages a Completed order stays Completed, and "Mark as
\* Completed" updates only an order that exists and is Pending, to Completed.
C9_OneWay ==
    [][/\ \A i \in DOMAIN db.rows[Orders] :
             StatusOf(db, i) = "Completed" =>
                 (i \in DOMAIN db'.rows[Orders] /\ StatusOf(db', i) = "Completed")
       /\ \A id \in 1 .. MaxFormRows :
             MarkAsCompleted(id) =>
                 /\ id \in DOMAIN db.rows[Orders]
                 /\ StatusOf(db, id) = "Pending"
                 /\ StatusOf(db', id) = "Completed"
                 /\ last'.rowcount = 1
      ]_vars

\* the button completed an order while another order was already Completed
C9_Witness ==
    /\ last.op = "Mark as Completed"
    /\ last.rowcount = 1
    /\ Cardinality({i \in DOMAIN db.rows[Orders] : StatusOf(db, i) = "Completed"}) >= 2

\* every stored row satisfies the CHECK clauses of its table
RowsSatisfyChecks ==
    \A t \in Tables : \A i \in DOMAIN db.rows[t] :
        /\ HasColumn(t, "price") => db.rows[t][i][ColumnIndex(t, "price") - 1] >= 0
        /\ db.rows[t][i][ColumnIndex(t, "quantity") - 1] > 0
        /\ HasColumn(t, "status") =>
               db.rows[t][i][ColumnIndex(t, "status") - 1] \in {"Pending", "Completed"}

\* C10: every stored row satisfies its column constraints, and an update of
\* an existing order to a status outside the enumeration raises
\* IntegrityError and changes nothing.
C10_ConstraintsEnforced ==
    /\ []RowsSatisfyChecks
    /\ [][\A id \in RecordIds : \A s \in Statuses \ {"Pending", "Completed"} :
             (/\ last'.op = "update_record_status"
              /\ id \in DOMAIN db.rows[Orders]
              /\ update_record_status(Orders, id, s)) =>
                 (last'.err = "IntegrityError" /\ db' = db)
         ]_vars

\* an update of an existing order was refused
C10_Witness ==
    /\ last.op = "update_record_status"
    /\ last.table = Orders
    /\ last.err = "IntegrityError"
    /\ RowCount(db, Orders) > 0

====
